---- MODULE Spec2Model ----
(***************************************************************************)
(* Model of src/app.py: the /query/ handler process_query and its helper   *)
(* query_snowflake_for_context.  A request embeds its text (OpenAI),       *)
(* checks the table against ALLOWED_TABLES, opens a Snowflake connection,  *)
(* runs the similarity query, closes the connection and zips the rows with *)
(* the column names.  The embedding provider and the store are external:   *)
(* every call to them either returns or raises, and the rows the store     *)
(* returns are whatever the store chooses to return.                       *)
(*                                                                         *)
(* Strings that the code transforms character by character (table names)   *)
(* are sequences of one-character strings; strings that the code only      *)
(* concatenates (messages) are sequences of tokens.                        *)
(***************************************************************************)
EXTENDS Integers, Sequences, FiniteSets

VARIABLES
    allowed_tables, \* the module-level set ALLOWED_TABLES as it is now
    pc,          \* pc[r]: where request r is in process_query
    query_data,  \* query_data[r]: the QueryRequest of r
    embedding,   \* embedding[r]: response.data[0].embedding
    table_name,  \* table_name[r]: the local table_name of query_snowflake_for_context
    conn,        \* conn[r]: the connection ctx of r: "none", "open" or "closed"
    sql,         \* sql[r]: the local sql (bound or not) handed to cursor.execute
    rows,        \* rows[r]: cursor.fetchall()
    columns,     \* columns[r]: [desc[0] for desc in cursor.description]
    calls,       \* calls[r]: how often r invoked each external operation
    raised_at,   \* raised_at[r]: the step of r that raised, "" when none did
    outcome      \* outcome[r]: what the caller of r receives

vars == <<allowed_tables, pc, query_data, embedding, table_name, conn, sql, rows, columns,
          calls, raised_at, outcome>>

----------------------------------------------------------------------------
(* Bounds of the model *)

\* Requests handled concurrently in SpecConc (one uvicorn worker each).
NumReqs == 2
\* Largest top_k a request asks for.
MaxTopK == 3
\* Longest row sequence the store returns, apart from StubRows.
MaxRows == 2

Reqs == 1..NumReqs

----------------------------------------------------------------------------
(* Strings *)

LowerCase == <<"a","b","c","d","e","f","g","h","i","j","k","l","m",
               "n","o","p","q","r","s","t","u","v","w","x","y","z">>
UpperCase == <<"A","B","C","D","E","F","G","H","I","J","K","L","M",
               "N","O","P","Q","R","S","T","U","V","W","X","Y","Z">>

\* str.upper() on one character: a lowercase letter becomes its capital,
\* every other character stays.
UpperChar(c) ==
    IF \E i \in 1..26 : LowerCase[i] = c
    THEN UpperCase[CHOOSE i \in 1..26 : LowerCase[i] = c]
    ELSE c

\* Upper with the call to .upper() forgotten.
UpperForgotten(s) == s

\* str.upper()
Upper(s) == [i \in 1..Len(s) |-> UpperChar(s[i])]

\* ALLOWED_TABLES = {"T2D_WIKI","AI_IMPACT_DATA"}
ALLOWED_TABLES ==
    { <<"T","2","D","_","W","I","K","I">>,
      <<"A","I","_","I","M","P","A","C","T","_","D","A","T","A">> }

\* SHAPE_TABLES with the second table left out of the branch.
SHAPE_TABLES_OnlyWiki == { <<"T","2","D","_","W","I","K","I">> }

\* The tuple of the table-shape branch: ("T2D_WIKI", "AI_IMPACT_DATA")
SHAPE_TABLES ==
    { <<"T","2","D","_","W","I","K","I">>,
      <<"A","I","_","I","M","P","A","C","T","_","D","A","T","A">> }

\* The columns of the SELECT list, in order, the computed score last.
SELECT_COLUMNS ==
    <<"ID", "SOURCE_FILE", "TEXT", "PAGES", "CITATION_COUNT", "DOI", "TITLE",
      "AUTHORS", "PUBLISHED", "CITATION", "PAGE_REFERENCE", "SAS_URL",
      "IS_TABLE", "SUMMARY", "similarity">>

\* VECTOR(FLOAT, 1536)
VECTOR_DIM == 1536

\* top_k: int = 15
DEFAULT_TOP_K == 15

----------------------------------------------------------------------------
(* Inputs and the external collaborators *)

Chars(n) ==
    CASE n = "T2D_WIKI"       -> <<"T","2","D","_","W","I","K","I">>
      [] n = "t2d_wiki"       -> <<"t","2","d","_","w","i","k","i">>
      [] n = "T2d_Wiki"       -> <<"T","2","d","_","W","i","k","i">>
      [] n = "t2d_wikis"      -> <<"t","2","d","_","w","i","k","i","s">>
      [] n = "AI_IMPACT_DATA" -> <<"A","I","_","I","M","P","A","C","T","_","D","A","T","A">>
      [] n = "ai_impact_data" -> <<"a","i","_","i","m","p","a","c","t","_","d","a","t","a">>
      [] n = "Ai_Impact_Data" -> <<"A","i","_","I","m","p","a","c","t","_","D","a","t","a">>
      [] n = "secret_table"   -> <<"s","e","c","r","e","t","_","t","a","b","l","e">>
      [] n = "SECRET_TABLE"   -> <<"S","E","C","R","E","T","_","T","A","B","L","E">>
      [] n = ""               -> <<>>

\* The table names a request may carry.
TableNames ==
    { Chars(n) : n \in {"T2D_WIKI", "t2d_wiki", "T2d_Wiki", "t2d_wikis",
                        "AI_IMPACT_DATA", "ai_impact_data", "Ai_Impact_Data",
                        "secret_table", "SECRET_TABLE", ""} }

\* The table names of the concurrent specification.
ConcTableNames ==
    { Chars(n) : n \in {"AI_IMPACT_DATA", "ai_impact_data", "secret_table",
                        "SECRET_TABLE"} }

\* The query texts a request may carry.
Texts == {"what is AI impact on jobs", "t2d risk factors"}

\* The query text of the concurrent specification.
ConcTexts == {"what is AI impact on jobs"}

\* top_k as the request gives it, or the default when it gives none.
TopKs == (0..MaxTopK) \cup {DEFAULT_TOP_K}

\* The embedding provider as a deterministic stub: one vector per text, in
\* tenths ([0.1,0.2,0.3,0.4] is <<1,2,3,4>>).
Embed(text) ==
    IF text = "what is AI impact on jobs" THEN <<1, 2, 3, 4>> ELSE <<4, 3, 2, 1>>

\* The messages of the exceptions the external calls raise.
ExcMessages ==
    { <<"timed out">>,
      <<"250001: could not connect, account=", "ACCT", " private_key=", "KEY">> }

\* A store row with all selected columns: the ID first, the similarity (in
\* tenths) last.
FullRow(id, sim) ==
    [j \in 1..Len(SELECT_COLUMNS) |->
        IF j = 1 THEN id ELSE IF j = Len(SELECT_COLUMNS) THEN sim ELSE 0]

\* A row with fewer values than selected columns (the similarity is missing).
ShortRow(id) == <<id, 0>>

\* A row with one value more than selected columns.
LongRow(id, sim) == Append(FullRow(id, sim), 0)

RowPool == { FullRow(1, 9), FullRow(2, 8), FullRow(3, 8), ShortRow(4), LongRow(5, 7) }

\* The store stub of the concrete scenario: five rows, similarities
\* 0.9, 0.8, 0.7, 0.6, 0.5.
StubRows == [i \in 1..5 |-> FullRow(i, 10 - i)]

SeqsUpTo(S, n) == UNION { [1..m -> S] : m \in 0..n }

\* What fetchall may return: the store is opaque, so any row sequence.
StoreResults == SeqsUpTo(RowPool, MaxRows) \cup {StubRows}

\* What fetchall returns in the concurrent specification.
ConcStoreResults == { <<>>, <<FullRow(1, 9), FullRow(2, 8)>> }

----------------------------------------------------------------------------
(* Values *)

NoQuery == [query_text |-> "", top_k |-> 0, table_name |-> <<>>]
NoSql == [bound |-> FALSE, qvec |-> <<>>, dim |-> 0, table |-> <<>>,
          columns |-> <<>>, limit |-> 0]
NoCalls == [embed |-> 0, connect |-> 0, execute |-> 0, fetch |-> 0, close |-> 0]
NoOutcome == [status |-> 0, detail |-> <<>>, context |-> <<>>]

\* HTTPException(status_code=..., detail=...)
HTTPException(status_code, detail) ==
    [type |-> "HTTPException", status_code |-> status_code, detail |-> detail]

\* Any other exception, with its message.
OtherException(type, msg) == [type |-> type, status_code |-> 0, detail |-> msg]

StatusText(n) == CASE n = 403 -> "403" [] n = 500 -> "500" [] OTHER -> "?"

\* str(e): an HTTPException prints as "<status_code>: <detail>", any other
\* exception as its message.
Str(e) ==
    IF e.type = "HTTPException"
    THEN <<StatusText(e.status_code), ": ">> \o e.detail
    ELSE e.detail

Min(a, b) == IF a <= b THEN a ELSE b

\* dict(zip(cols, row)): zip stops at the shorter of the two, dict keeps the
\* last value of a repeated key.
DictZip(cols, row) ==
    LET n == Min(Len(cols), Len(row))
        keys == { cols[j] : j \in 1..n }
    IN  [k \in keys |-> row[CHOOSE j \in 1..n :
                              /\ cols[j] = k
                              /\ \A i \in 1..n : cols[i] = k => i <= j]]

\* Assemble building the list back to front.
AssembleReversed(cols, rs) ==
    [i \in 1..Len(rs) |-> DictZip(cols, rs[Len(rs) + 1 - i])]

\* context = [dict(zip(columns, row)) for row in rows]
Assemble(cols, rs) == [i \in 1..Len(rs) |-> DictZip(cols, rs[i])]

\* IsAllowed with the test inverted.
IsAllowedInverted(t) == t \notin allowed_tables

\* table_name not in ALLOWED_TABLES, negated
IsAllowed(t) == t \in allowed_tables

\* The f-string of the similarity query: the vector literal cast to
\* VECTOR(FLOAT, 1536), the selected columns, FROM the table, ORDER BY
\* similarity DESC, LIMIT top_k.
BuildSql(vector, t, top_k) ==
    [bound |-> TRUE, qvec |-> vector, dim |-> VECTOR_DIM, table |-> t,
     columns |-> SELECT_COLUMNS, limit |-> top_k]

\* ExceptHandler answering a failure with an empty context list.
ExceptHandlerEmptyContext(e) == [status |-> 200, detail |-> <<>>, context |-> <<>>]

\* The except clause of process_query: whatever was raised becomes a 500
\* whose detail is "Process failed: " followed by str(e).
ExceptHandler(e) ==
    [status |-> 500, detail |-> <<"Process failed: ">> \o Str(e), context |-> <<>>]

\* return {"context": context}
Success(context) == [status |-> 200, detail |-> <<>>, context |-> context]

----------------------------------------------------------------------------
(* The state machine *)

Init ==
    /\ allowed_tables = ALLOWED_TABLES
    /\ pc = [r \in Reqs |-> "Idle"]
    /\ query_data = [r \in Reqs |-> NoQuery]
    /\ embedding = [r \in Reqs |-> <<>>]
    /\ table_name = [r \in Reqs |-> <<>>]
    /\ conn = [r \in Reqs |-> "none"]
    /\ sql = [r \in Reqs |-> NoSql]
    /\ rows = [r \in Reqs |-> <<>>]
    /\ columns = [r \in Reqs |-> <<>>]
    /\ calls = [r \in Reqs |-> NoCalls]
    /\ raised_at = [r \in Reqs |-> ""]
    /\ outcome = [r \in Reqs |-> NoOutcome]

\* An exception e raised at the current step of r reaches the except clause
\* of process_query, which answers the caller.
Raise(r, e) ==
    /\ raised_at' = [raised_at EXCEPT ![r] = pc[r]]
    /\ outcome' = [outcome EXCEPT ![r] = ExceptHandler(e)]
    /\ pc' = [pc EXCEPT ![r] = "Responded"]

\* A request arrives: process_query is entered with its QueryRequest.
ReceiveRequest(r, n, k, q) ==
    /\ pc[r] = "Idle"
    /\ query_data' = [query_data EXCEPT ![r] =
                        [query_text |-> q, top_k |-> k, table_name |-> n]]
    /\ pc' = [pc EXCEPT ![r] = "Embedding"]
    /\ UNCHANGED <<allowed_tables, embedding, table_name, conn, sql, rows,
                   columns, calls, raised_at, outcome>>

Receive(r) ==
    \E n \in TableNames, k \in TopKs, q \in Texts : ReceiveRequest(r, n, k, q)

ReceiveConc(r) ==
    \E n \in ConcTableNames, q \in ConcTexts : ReceiveRequest(r, n, MaxTopK, q)

\* openai.embeddings.create returns; the embedding is taken from it.
EmbedOk(r) ==
    /\ pc[r] = "Embedding"
    /\ calls' = [calls EXCEPT ![r].embed = @ + 1]
    /\ embedding' = [embedding EXCEPT ![r] = Embed(query_data[r].query_text)]
    /\ pc' = [pc EXCEPT ![r] = "Authorizing"]
    /\ UNCHANGED <<allowed_tables, query_data, table_name, conn, sql, rows, columns,
                   raised_at, outcome>>

\* EmbedFail with the exception swallowed: the request goes on without an
\* embedding.
EmbedFailSwallowed(r) ==
    /\ pc[r] = "Embedding"
    /\ calls' = [calls EXCEPT ![r].embed = @ + 1]
    /\ pc' = [pc EXCEPT ![r] = "Authorizing"]
    /\ UNCHANGED <<allowed_tables, query_data, embedding, table_name, conn, sql,
                   rows, columns, raised_at, outcome>>

\* openai.embeddings.create raises.
EmbedFail(r) ==
    /\ pc[r] = "Embedding"
    /\ calls' = [calls EXCEPT ![r].embed = @ + 1]
    /\ \E m \in ExcMessages : Raise(r, OtherException("APIError", m))
    /\ UNCHANGED <<allowed_tables, query_data, embedding, table_name, conn, sql, rows, columns>>

\* Authorize remembering every name it has seen in the allow-list
\* (ALLOWED_TABLES.add(table_name) ahead of the test).
AuthorizeAddsName(r) ==
    /\ pc[r] = "Authorizing"
    /\ table_name' = [table_name EXCEPT ![r] = Upper(query_data[r].table_name)]
    /\ allowed_tables' = allowed_tables \cup {table_name'[r]}
    /\ pc' = [pc EXCEPT ![r] = "Connecting"]
    /\ UNCHANGED <<query_data, embedding, conn, sql, rows, columns, calls,
                   raised_at, outcome>>

\* Authorize with the raise missing: the check is made and ignored.
AuthorizeNoRaise(r) ==
    /\ pc[r] = "Authorizing"
    /\ table_name' = [table_name EXCEPT ![r] = Upper(query_data[r].table_name)]
    /\ pc' = [pc EXCEPT ![r] = "Connecting"]
    /\ UNCHANGED <<allowed_tables, query_data, embedding, conn, sql, rows, columns, calls,
                   raised_at, outcome>>

\* query_snowflake_for_context is entered: the name is uppercased and checked
\* against the allow-list; a name outside it raises the 403.
Authorize(r) ==
    /\ pc[r] = "Authorizing"
    /\ table_name' = [table_name EXCEPT ![r] = Upper(query_data[r].table_name)]
    /\ IF IsAllowed(table_name'[r])
       THEN /\ pc' = [pc EXCEPT ![r] = "Connecting"]
            /\ UNCHANGED <<raised_at, outcome>>
       ELSE Raise(r, HTTPException(403, <<"Table not allowed.">>))
    /\ UNCHANGED <<allowed_tables, query_data, embedding, conn, sql, rows, columns, calls>>

\* snowflake.connector.connect returns; the query text is built when the
\* table has a shape, the cursor is created, and sql is read for execute.
ConnectOk(r) ==
    /\ pc[r] = "Connecting"
    /\ calls' = [calls EXCEPT ![r].connect = @ + 1]
    /\ conn' = [conn EXCEPT ![r] = "open"]
    /\ IF table_name[r] \in SHAPE_TABLES
       THEN /\ sql' = [sql EXCEPT ![r] =
                         BuildSql(embedding[r], table_name[r], query_data[r].top_k)]
            /\ pc' = [pc EXCEPT ![r] = "Executing"]
            /\ UNCHANGED <<raised_at, outcome>>
       ELSE /\ Raise(r, OtherException("UnboundLocalError",
                          <<"cannot access local variable 'sql'">>))
            /\ UNCHANGED sql
    /\ UNCHANGED <<allowed_tables, query_data, embedding, table_name, rows, columns>>

\* ConnectFail with a retry: the failed connect is attempted again.
ConnectFailRetry(r) ==
    /\ pc[r] = "Connecting"
    /\ calls[r].connect < 3
    /\ calls' = [calls EXCEPT ![r].connect = @ + 1]
    /\ UNCHANGED <<allowed_tables, pc, query_data, embedding, table_name, conn,
                   sql, rows, columns, raised_at, outcome>>

\* snowflake.connector.connect raises: no connection exists.
ConnectFail(r) ==
    /\ pc[r] = "Connecting"
    /\ calls' = [calls EXCEPT ![r].connect = @ + 1]
    /\ \E m \in ExcMessages : Raise(r, OtherException("DatabaseError", m))
    /\ UNCHANGED <<allowed_tables, query_data, embedding, table_name, conn, sql, rows, columns>>

\* cursor.execute(sql) returns.
ExecuteOk(r) ==
    /\ pc[r] = "Executing"
    /\ calls' = [calls EXCEPT ![r].execute = @ + 1]
    /\ pc' = [pc EXCEPT ![r] = "Fetching"]
    /\ UNCHANGED <<allowed_tables, query_data, embedding, table_name, conn, sql, rows, columns,
                   raised_at, outcome>>

\* cursor.execute(sql) raises: the function is left at once, ctx.close() is
\* not reached.
ExecuteFail(r) ==
    /\ pc[r] = "Executing"
    /\ calls' = [calls EXCEPT ![r].execute = @ + 1]
    /\ \E m \in ExcMessages : Raise(r, OtherException("ProgrammingError", m))
    /\ UNCHANGED <<allowed_tables, query_data, embedding, table_name, conn, sql, rows, columns>>

\* cursor.fetchall() returns rs; the column names are read off
\* cursor.description, which describes the select list of the query.
FetchReturn(r, rs) ==
    /\ pc[r] = "Fetching"
    /\ calls' = [calls EXCEPT ![r].fetch = @ + 1]
    /\ rows' = [rows EXCEPT ![r] = rs]
    /\ columns' = [columns EXCEPT ![r] = sql[r].columns]
    /\ pc' = [pc EXCEPT ![r] = "Closing"]
    /\ UNCHANGED <<allowed_tables, query_data, embedding, table_name, conn, sql,
                   raised_at, outcome>>

FetchOk(r) == \E rs \in StoreResults : FetchReturn(r, rs)

FetchOkConc(r) == \E rs \in ConcStoreResults : FetchReturn(r, rs)

\* cursor.fetchall() raises: ctx.close() is not reached.
FetchFail(r) ==
    /\ pc[r] = "Fetching"
    /\ calls' = [calls EXCEPT ![r].fetch = @ + 1]
    /\ \E m \in ExcMessages : Raise(r, OtherException("OperationalError", m))
    /\ UNCHANGED <<allowed_tables, query_data, embedding, table_name, conn, sql, rows, columns>>

\* cursor.close() and ctx.close() return.
CloseOk(r) ==
    /\ pc[r] = "Closing"
    /\ calls' = [calls EXCEPT ![r].close = @ + 1]
    /\ conn' = [conn EXCEPT ![r] = "closed"]
    /\ pc' = [pc EXCEPT ![r] = "Assembling"]
    /\ UNCHANGED <<allowed_tables, query_data, embedding, table_name, sql, rows, columns,
                   raised_at, outcome>>

\* cursor.close() raises: ctx.close() is not reached.
CloseFail(r) ==
    /\ pc[r] = "Closing"
    /\ \E m \in ExcMessages : Raise(r, OtherException("OperationalError", m))
    /\ UNCHANGED <<allowed_tables, query_data, embedding, table_name, conn, sql, rows, columns,
                   calls>>

\* Respond with the context list kept in a module-level variable: the
\* records of an earlier answer are still in it.
RespondShared(r) ==
    /\ pc[r] = "Assembling"
    /\ LET others == { o \in Reqs \ {r} :
                         pc[o] = "Responded" /\ outcome[o].status = 200 }
           kept == IF others = {} THEN <<>>
                   ELSE outcome[CHOOSE o \in others : TRUE].context
       IN  outcome' = [outcome EXCEPT ![r] =
                         Success(kept \o Assemble(columns[r], rows[r]))]
    /\ pc' = [pc EXCEPT ![r] = "Responded"]
    /\ UNCHANGED <<allowed_tables, query_data, embedding, table_name, conn, sql,
                   rows, columns, calls, raised_at>>

\* Respond treating an empty result as an error.
RespondEmptyIsError(r) ==
    /\ pc[r] = "Assembling"
    /\ IF rows[r] = <<>>
       THEN Raise(r, OtherException("IndexError", <<"list index out of range">>))
       ELSE /\ outcome' = [outcome EXCEPT ![r] =
                             Success(Assemble(columns[r], rows[r]))]
            /\ pc' = [pc EXCEPT ![r] = "Responded"]
            /\ UNCHANGED raised_at
    /\ UNCHANGED <<allowed_tables, query_data, embedding, table_name, conn, sql,
                   rows, columns, calls>>

\* Respond polling until the store has given rows.
RespondWaitsForRows(r) ==
    /\ pc[r] = "Assembling"
    /\ rows[r] # <<>>
    /\ outcome' = [outcome EXCEPT ![r] = Success(Assemble(columns[r], rows[r]))]
    /\ pc' = [pc EXCEPT ![r] = "Responded"]
    /\ UNCHANGED <<allowed_tables, query_data, embedding, table_name, conn, sql,
                   rows, columns, calls, raised_at>>

\* The rows are zipped with the column names and returned to the caller.
Respond(r) ==
    /\ pc[r] = "Assembling"
    /\ outcome' = [outcome EXCEPT ![r] = Success(Assemble(columns[r], rows[r]))]
    /\ pc' = [pc EXCEPT ![r] = "Responded"]
    /\ UNCHANGED <<allowed_tables, query_data, embedding, table_name, conn, sql, rows, columns,
                   calls, raised_at>>

\* The steps of a request after its arrival, apart from fetchall's return.
Step(r) ==
    \/ EmbedOk(r)
    \/ EmbedFail(r)
    \/ Authorize(r)
    \/ ConnectOk(r)
    \/ ConnectFail(r)
    \/ ExecuteOk(r)
    \/ ExecuteFail(r)
    \/ FetchFail(r)
    \/ CloseOk(r)
    \/ CloseFail(r)
    \/ Respond(r)

\* One worker: process_query awaits nothing, so the event loop runs each
\* request to its end before the next; the store returns any row sequence.
Next ==
    \/ Receive(1)
    \/ FetchOk(1)
    \/ Step(1)

Spec == Init /\ [][Next]_vars

\* Every external call of the request eventually returns or raises, and the
\* interpreter keeps running the handler's own steps.
SpecLive == Spec /\ WF_vars(Step(1) \/ FetchOk(1))

\* Several workers, one request each, interleaved at the external calls.
NextConc ==
    \E r \in Reqs :
        \/ ReceiveConc(r)
        \/ FetchOkConc(r)
        \/ Step(r)

SpecConc == Init /\ [][NextConc]_vars

----------------------------------------------------------------------------
(* Vocabulary of the properties *)

\* r has reached one of the two Responded states.
Terminal(r) == pc[r] = "Responded"

\* r answered with a context list.
Succeeded(r) == Terminal(r) /\ outcome[r].status = 200

\* r answered with an error.
Failed(r) == Terminal(r) /\ outcome[r].status >= 400

\* The request's table name as a test expects it uppercased: each casing is
\* listed with its capitals, independently of Upper.
Capitals(n) ==
    CASE n = Chars("t2d_wiki")       -> Chars("T2D_WIKI")
      [] n = Chars("T2d_Wiki")       -> Chars("T2D_WIKI")
      [] n = Chars("ai_impact_data") -> Chars("AI_IMPACT_DATA")
      [] n = Chars("Ai_Impact_Data") -> Chars("AI_IMPACT_DATA")
      [] n = Chars("secret_table")   -> Chars("SECRET_TABLE")
      [] OTHER                       -> n

\* The names on the allow-list, written out.
AllowedNames == { Chars("T2D_WIKI"), Chars("AI_IMPACT_DATA") }

\* The table r asks for is not on the allow-list, whatever its casing.
Disallowed(r) == Capitals(query_data[r].table_name) \notin AllowedNames

\* r has passed the allow-list check.
Authorized(r) ==
    pc[r] \in {"Connecting", "Executing", "Fetching", "Closing", "Assembling"}
    \/ (Terminal(r) /\ raised_at[r] \notin {"Embedding", "Authorizing"})

\* The similarity of a context record, when it has one.
SimilarityOf(rec) == rec["similarity"]

----------------------------------------------------------------------------
(* C1: a request for a table outside the allow-list is rejected with no    *)
(* call to the embedding provider and none to the store.                   *)

----------------------------------------------------------------------------
(* C2: the caller of a request for a disallowed table receives the         *)
(* forbidden outcome.                                                      *)

\* C2: a request rejected by the allow-list check answers with status 403 and
\* the detail "Table not allowed.", nothing more.
C2_ForbiddenOutcome ==
    \A r \in Reqs :
        (Terminal(r) /\ Disallowed(r) /\ raised_at[r] = "Authorizing") =>
            /\ outcome[r].status = 403
            /\ outcome[r].detail = <<"Table not allowed.">>

----------------------------------------------------------------------------
(* C3: the store is only ever reached for an allowed table.                *)

\* C3: in every state, a request that is about to connect, has connected, has
\* a query text or has executed one asks for a table on the allow-list, and
\* the table named in its query is on the allow-list.
C3_StoreOnlyForAllowedTables ==
    \A r \in Reqs :
        /\ (\/ Authorized(r)
            \/ calls[r].connect > 0
            \/ calls[r].execute > 0
            \/ calls[r].fetch > 0
            \/ conn[r] # "none"
            \/ sql[r].bound) => ~Disallowed(r)
        /\ sql[r].bound => sql[r].table \in AllowedNames

\* One request has executed its query while another, for a disallowed table,
\* has been answered.
C3_Witness ==
    \E r1, r2 \in Reqs :
        /\ calls[r1].execute = 1
        /\ sql[r1].bound
        /\ Terminal(r2)
        /\ Disallowed(r2)
        /\ raised_at[r2] = "Authorizing"

----------------------------------------------------------------------------
(* C4: a request that has answered holds no open connection.               *)

\* C4: whenever a request is in a Responded state, the connection it opened,
\* if any, has been closed.
C4_ConnectionReleased ==
    \A r \in Reqs : Terminal(r) => conn[r] # "open"

----------------------------------------------------------------------------
(* C5: a failure of an external call ends in the internal-failure outcome,  *)
(* and a response is a context list or an error, never both.               *)

\* C5: a request for an allowed table in which a step raised answers with
\* status 500 and no context record; every answer is either a 200 with a
\* context list and no detail, given when nothing was raised, or an error
\* with a detail and no context record.
C5_FailureIsInternalAllOrNothing ==
    \A r \in Reqs :
        Terminal(r) =>
            /\ (~Disallowed(r) /\ raised_at[r] # "") =>
                   (outcome[r].status = 500 /\ outcome[r].context = <<>>)
            /\ \/ /\ raised_at[r] = ""
                  /\ outcome[r].status = 200
                  /\ outcome[r].detail = <<>>
               \/ /\ raised_at[r] # ""
                  /\ outcome[r].status = 500
                  /\ outcome[r].detail # <<>>
                  /\ outcome[r].context = <<>>

\* A request for an allowed table failed after rows had been fetched.
C5_Witness ==
    \E r \in Reqs :
        /\ Terminal(r)
        /\ ~Disallowed(r)
        /\ raised_at[r] = "Closing"
        /\ Len(rows[r]) > 0

----------------------------------------------------------------------------
(* C6: the error detail does not depend on the text of the exception.      *)

\* C6: two requests with the same inputs that failed at the same step, with
\* whatever exception messages, give their callers the same answer.
C6_DetailIndependentOfException ==
    \A r1, r2 \in Reqs :
        (/\ Terminal(r1)
         /\ Terminal(r2)
         /\ query_data[r1] = query_data[r2]
         /\ raised_at[r1] # ""
         /\ raised_at[r1] = raised_at[r2]) => outcome[r1] = outcome[r2]

----------------------------------------------------------------------------
(* C7: a table name is treated as its uppercase form.                      *)

\* C7: if one request names a table in capitals and another names the same
\* table in any casing, then once both have passed the allow-list check they
\* hold the same normalised name and the same decision, their queries name
\* the same table, and with the same other inputs, the same failing step and
\* exception, and the same rows, their answers are equal; a name whose
\* capitals are not on the allow-list is rejected in every casing.
C7_CasingIrrelevant ==
    /\ \A r1, r2 \in Reqs :
        (/\ query_data[r2].table_name = Capitals(query_data[r1].table_name)
         /\ pc[r1] \notin {"Idle", "Embedding", "Authorizing"}
         /\ pc[r2] \notin {"Idle", "Embedding", "Authorizing"}
         /\ raised_at[r1] # "Embedding"
         /\ raised_at[r2] # "Embedding") =>
            /\ table_name[r1] = table_name[r2]
            /\ table_name[r1] = query_data[r2].table_name
            /\ (raised_at[r1] = "Authorizing") = (raised_at[r2] = "Authorizing")
            /\ Authorized(r1) = Authorized(r2)
            /\ (sql[r1].bound /\ sql[r2].bound) => sql[r1].table = sql[r2].table
            /\ (/\ Terminal(r1)
                /\ Terminal(r2)
                /\ query_data[r1].query_text = query_data[r2].query_text
                /\ query_data[r1].top_k = query_data[r2].top_k
                /\ raised_at[r1] = raised_at[r2]
                /\ rows[r1] = rows[r2]
                /\ (raised_at[r1] # "" => outcome[r1].detail = outcome[r2].detail))
               => outcome[r1] = outcome[r2]
    /\ \A r \in Reqs :
        (Disallowed(r) /\ Terminal(r) /\ raised_at[r] # "Embedding") =>
            (raised_at[r] = "Authorizing" /\ Failed(r))

\* A lowercase and an uppercase request for the same allowed table have both
\* succeeded with rows.
C7_Witness ==
    \E r1, r2 \in Reqs :
        /\ r1 # r2
        /\ query_data[r1].table_name = Chars("ai_impact_data")
        /\ query_data[r2].table_name = Chars("AI_IMPACT_DATA")
        /\ Succeeded(r1)
        /\ Succeeded(r2)
        /\ Len(outcome[r1].context) > 0

----------------------------------------------------------------------------
(* C8: the length of the context list against top_k.                       *)

\* C8: a successful answer to a request with top_k = N holds at most N
\* records, whatever rows the store returned; with top_k = 3 and the five stub
\* rows it holds exactly three.
C8_LengthAtMostTopK ==
    \A r \in Reqs :
        Succeeded(r) =>
            /\ Len(outcome[r].context) <= query_data[r].top_k
            /\ (query_data[r].top_k = 3 /\ rows[r] = StubRows) =>
                   Len(outcome[r].context) = 3

----------------------------------------------------------------------------
(* C9: assembly keeps the rows in the store's order.                       *)

\* Every row of rs has a value for each column of cols.
HasAllColumns(cols, rs) == \A i \in 1..Len(rs) : Len(rs[i]) >= Len(cols)

\* C9: in a successful answer the i-th record holds the values of the i-th
\* row the store returned, under the column names in order; so when the rows
\* came in non-increasing similarity, the records are in non-increasing
\* similarity.
C9_OrderPreserved ==
    \A r \in Reqs :
        Succeeded(r) =>
            LET ctx == outcome[r].context
                n == Len(columns[r])
            IN  /\ Len(ctx) = Len(rows[r])
                /\ \A i \in 1..Len(rows[r]) :
                     \A j \in 1..Min(n, Len(rows[r][i])) :
                        ctx[i][columns[r][j]] = rows[r][i][j]
                /\ (/\ HasAllColumns(columns[r], rows[r])
                    /\ \A i \in 1..(Len(rows[r]) - 1) :
                         rows[r][i][n] >= rows[r][i + 1][n])
                   => \A i \in 1..(Len(ctx) - 1) :
                         SimilarityOf(ctx[i]) >= SimilarityOf(ctx[i + 1])

\* A successful answer built from two rows of different similarity, in
\* descending order.
C9_Witness ==
    \E r \in Reqs :
        /\ Succeeded(r)
        /\ rows[r] = <<FullRow(1, 9), FullRow(2, 8)>>
        /\ Len(outcome[r].context) = 2

----------------------------------------------------------------------------
(* C10: all records of an answer have the store's column names as keys.     *)

\* C10: in a successful answer every record has the same keys, the column
\* names the store reported, whatever rows the store returned.
C10_IdenticalKeys ==
    \A r \in Reqs :
        Succeeded(r) =>
            \A i \in 1..Len(outcome[r].context) :
                DOMAIN outcome[r].context[i]
                    = { columns[r][j] : j \in 1..Len(columns[r]) }

----------------------------------------------------------------------------
(* C11: a row whose length differs from the number of columns ends the      *)
(* request in the internal-failure outcome.                                *)

\* Some row of rs has more or fewer values than cols has names.
ShapeMismatch(cols, rs) == \E i \in 1..Len(rs) : Len(rs[i]) # Len(cols)

\* C11: a request whose fetched rows do not all have one value per column
\* name does not answer with a context list: it ends in the 500 outcome.
C11_ShapeMismatchFails ==
    \A r \in Reqs :
        (Terminal(r) /\ calls[r].fetch = 1 /\ raised_at[r] # "Fetching"
            /\ ShapeMismatch(columns[r], rows[r])) =>
            (outcome[r].status = 500 /\ outcome[r].context = <<>>)

----------------------------------------------------------------------------
(* C12: no retry and no backtracking.                                      *)

\* Everything the model holds about request r.
ReqState(r) ==
    <<pc[r], query_data[r], embedding[r], table_name[r], conn[r], sql[r],
      rows[r], columns[r], calls[r], raised_at[r], outcome[r]>>

\* r has made each external call at most once.
AtMostOnce(r) ==
    /\ calls[r].embed <= 1
    /\ calls[r].connect <= 1
    /\ calls[r].execute <= 1
    /\ calls[r].fetch <= 1
    /\ calls[r].close <= 1

\* C12: after every step, each request has invoked the embedding provider,
\* connect, execute, fetchall and close at most once each, whichever of them
\* failed; and a request that is in a Responded state is left as it is by
\* every step: no further transition, no further external call.
C12_NoRetryNoBacktrack ==
    [][\A r \in Reqs :
          /\ AtMostOnce(r)'
          /\ Terminal(r) => ReqState(r)' = ReqState(r)]_vars

\* One request failed at connect after a single attempt and stayed answered
\* while another went through to success.
C12_Witness ==
    \E r1, r2 \in Reqs :
        /\ Terminal(r1)
        /\ raised_at[r1] = "Connecting"
        /\ calls[r1].connect = 1
        /\ Succeeded(r2)

----------------------------------------------------------------------------
(* C13: requests share nothing but the allow-list.                          *)

\* The query of r is the one its own inputs give.
OwnQuery(r) ==
    sql[r].bound =>
        /\ sql[r].table = Capitals(query_data[r].table_name)
        /\ sql[r].qvec = Embed(query_data[r].query_text)
        /\ sql[r].limit = query_data[r].top_k

\* The connection of r was opened by r, and closed by r if it is closed.
OwnConnection(r) ==
    /\ conn[r] = "none" => (calls[r].connect = 0 \/ raised_at[r] = "Connecting")
    /\ conn[r] # "none" => calls[r].connect = 1
    /\ conn[r] = "closed" <=> calls[r].close = 1
    /\ calls[r].execute > 0 => conn[r] # "none"

\* A request that has answered has closed the connection it opened.
ClosedOwnConnection(r) ==
    (Terminal(r) /\ conn[r] # "none") => (conn[r] = "closed" /\ calls[r].close = 1)

\* C13: under any interleaving, every step changes the state of one request
\* only; each request that reaches the store has opened its connection
\* itself, executes on it the query built from its own inputs, and closes it
\* itself.
C13_RequestsIsolated ==
    /\ [](\A r \in Reqs :
            OwnQuery(r) /\ OwnConnection(r) /\ ClosedOwnConnection(r))
    /\ [][\E r \in Reqs :
            \A o \in Reqs \ {r} : ReqState(o)' = ReqState(o)]_vars

\* The part of C13 that is about sharing alone: one request's step changes
\* no other request, and query and connection are the request's own.
RequestsShareNothing ==
    /\ [](\A r \in Reqs : OwnQuery(r) /\ OwnConnection(r))
    /\ [][\E r \in Reqs :
            \A o \in Reqs \ {r} : ReqState(o)' = ReqState(o)]_vars

----------------------------------------------------------------------------
(* C14: the same request gives the same answer.                            *)

\* The external calls behaved alike for r1 and r2: the same step raised, if
\* any, with the same exception text, and fetchall returned the same rows.
SameStubBehaviour(r1, r2) ==
    /\ raised_at[r1] = raised_at[r2]
    /\ rows[r1] = rows[r2]
    /\ raised_at[r1] \notin {"", "Authorizing"} =>
           outcome[r1].detail = outcome[r2].detail

\* C14: two answered requests with the same query_text, top_k and table_name,
\* for which the external calls behaved alike, have the same embedding, the
\* same query, the same outcome and the same ordered context list, whatever
\* the other did before or in between.
C14_SameRequestSameAnswer ==
    \A r1, r2 \in Reqs :
        (/\ Terminal(r1)
         /\ Terminal(r2)
         /\ query_data[r1] = query_data[r2]
         /\ SameStubBehaviour(r1, r2)) =>
            /\ embedding[r1] = embedding[r2]
            /\ sql[r1] = sql[r2]
            /\ outcome[r1].status = outcome[r2].status
            /\ outcome[r1].context = outcome[r2].context
            /\ outcome[r1] = outcome[r2]

\* The same request has been answered twice with the same two records.
C14_Witness ==
    \E r1, r2 \in Reqs :
        /\ r1 # r2
        /\ query_data[r1] = query_data[r2]
        /\ Succeeded(r1)
        /\ Succeeded(r2)
        /\ rows[r1] = rows[r2]
        /\ Len(outcome[r1].context) = 2

----------------------------------------------------------------------------
(* C15: zero rows give an empty context list, not an error.                 *)

\* C15: a request whose fetchall returned no row and whose connection was
\* closed ends with status 200 and the empty context list, and the
\* connection is closed.
C15_ZeroRowsSucceed ==
    \A r \in Reqs :
        (Terminal(r) /\ calls[r].close = 1 /\ rows[r] = <<>>) =>
            /\ outcome[r].status = 200
            /\ outcome[r].context = <<>>
            /\ conn[r] = "closed"

\* A request for an allowed table was answered after the store returned no
\* row.
C15_Witness ==
    \E r \in Reqs :
        /\ Terminal(r)
        /\ calls[r].fetch = 1
        /\ calls[r].close = 1
        /\ rows[r] = <<>>
        /\ ~Disallowed(r)

----------------------------------------------------------------------------
(* C16: the stages of a request come in one order.                          *)

\* The place of a stage in the order Received (Idle), Embedding, Authorizing,
\* Querying (Connecting, Executing, Fetching, Closing), Assembling, Responded.
Rank(stage) ==
    CASE stage = "Idle"        -> 0
      [] stage = "Embedding"   -> 1
      [] stage = "Authorizing" -> 2
      [] stage = "Connecting"  -> 3
      [] stage = "Executing"   -> 4
      [] stage = "Fetching"    -> 5
      [] stage = "Closing"     -> 6
      [] stage = "Assembling"  -> 7
      [] stage = "Responded"   -> 8

\* What holds of r at its stage: the allow-list check is reached only with
\* the embedding returned, the store only with the embedding returned and the
\* table on the allow-list, and never after a failed embedding.
StageOrder(r) ==
    /\ (Rank(pc[r]) \in 2..7 \/ (Terminal(r) /\ raised_at[r] # "Embedding")) =>
           /\ calls[r].embed = 1
           /\ embedding[r] = Embed(query_data[r].query_text)
    /\ (Rank(pc[r]) \in 4..7 \/ calls[r].connect > 0) =>
           /\ calls[r].embed = 1
           /\ embedding[r] = Embed(query_data[r].query_text)
           /\ table_name[r] \in AllowedNames
    /\ (Terminal(r) /\ raised_at[r] = "Embedding") =>
           /\ calls[r].connect = 0
           /\ calls[r].execute = 0
           /\ calls[r].fetch = 0
           /\ conn[r] = "none"

\* C16: a request moves from a stage to the next one in the order, or to
\* Responded, and never back; the allow-list check happens only after the
\* embedding call has returned, connect only after the embedding succeeded
\* and the table was authorized, and a request whose embedding call failed
\* never contacts the store.
C16_StagesInOrder ==
    /\ [](\A r \in Reqs : StageOrder(r))
    /\ [][\A r \in Reqs :
            pc'[r] # pc[r] =>
                \/ Rank(pc'[r]) = Rank(pc[r]) + 1
                \/ (pc'[r] = "Responded" /\ pc[r] # "Idle")]_vars

\* A request for an allowed table whose embedding call failed has answered.
C16_Witness ==
    \E r \in Reqs :
        /\ Terminal(r)
        /\ raised_at[r] = "Embedding"
        /\ ~Disallowed(r)
        /\ calls[r].embed = 1

----------------------------------------------------------------------------
(* C17: every request is answered.                                         *)

\* C17: when every external call eventually returns or raises, a request
\* that has arrived eventually reaches a Responded state.
C17_EventuallyResponded ==
    \A r \in Reqs : (pc[r] # "Idle") ~> Terminal(r)

\* A request has gone through every stage and answered with records.
C17_Witness ==
    \E r \in Reqs :
        /\ Succeeded(r)
        /\ calls[r] = [embed |-> 1, connect |-> 1, execute |-> 1, fetch |-> 1,
                       close |-> 1]
        /\ Len(outcome[r].context) > 0

----------------------------------------------------------------------------
(* C18: every allowed table has a query shape.                              *)

\* C18: a request that has reached cursor.execute holds the query text, built
\* for its own table; no request fails after connect for lack of a query
\* (a request that failed at the connect step has no connection: connect
\* itself raised); every table on the allow-list is in the shape branch.
C18_QueryAlwaysBuilt ==
    /\ \A t \in allowed_tables : t \in SHAPE_TABLES
    /\ \A r \in Reqs :
        /\ (Rank(pc[r]) \in 4..7 \/ calls[r].execute > 0) =>
               (sql[r].bound /\ sql[r].table = table_name[r])
        /\ (Terminal(r) /\ raised_at[r] = "Connecting") => conn[r] = "none"
        /\ (calls[r].connect = 1 /\ raised_at[r] # "Connecting") => sql[r].bound

\* A request for the second allowed table is about to execute its query.
C18_Witness ==
    \E r \in Reqs :
        /\ pc[r] = "Executing"
        /\ table_name[r] = Chars("AI_IMPACT_DATA")
        /\ sql[r].bound

----------------------------------------------------------------------------
(* C19: no request changes the allow-list.                                  *)

\* C19: in every reachable state the allow-list is the set it was at process
\* start, T2D_WIKI and AI_IMPACT_DATA, and no step changes it.
C19_AllowListFixed ==
    /\ [](allowed_tables = AllowedNames)
    /\ [][allowed_tables' = allowed_tables]_vars

\* A success and a rejection by the allow-list check have both been
\* answered.
C19_Witness ==
    \E r1, r2 \in Reqs :
        /\ Succeeded(r1)
        /\ Terminal(r2)
        /\ raised_at[r2] = "Authorizing"

====
